---------------------------- MODULE Spec2Model ----------------------------
(***************************************************************************)
(* MediaHandler (camera-capture/app/io/handlers/media_handler.py): load,   *)
(* handle_archive and save_dict over a Writer and a Loader backend.        *)
(*                                                                         *)
(* A path is a record [dir, ts, name]: dir is the sequence of directory    *)
(* segments, and the file name is "<name>" when ts = NoTs and              *)
(* "<ts>-<name>" otherwise.  The store maps the paths that exist to their  *)
(* content; a payload is the ordered sequence of its media items.          *)
(***************************************************************************)
EXTENDS Integers, Sequences, FiniteSets, TLC

\* ------------------------------------------------------------- bounds
MaxClock == 2            \* the wall clock runs over the ticks 0..MaxClock
TicksPerSecond == 2      \* clock ticks within one second of the timestamp
MaxCycles == 3           \* archive-then-save cycles of the cycle specification
MaxCalls == 3            \* calls begun in the specification of concurrent callers

\* ------------------------------------------------------------- values
Callers == {"c1", "c2"}
Names == {"a", "b"}
Data == {<<>>, <<"y">>, <<"x", "y">>}
Options == {"o1", "o2"}
Outcomes == {"ok", "fail", "raise"}
DataLocationArg == <<"data">>
NoTs == -1
NoOpts == "-"
NoArg == [data |-> <<>>, opts |-> NoOpts]
NoPath == [dir |-> <<>>, ts |-> NoTs, name |-> ""]
EmptyStore == [p \in {} |-> <<>>]

VARIABLES
    data_location,      \* self.data_location
    archive_location,   \* self.archive_location
    store,              \* the storage behind the writer and the loader
    now,                \* the wall clock, in ticks
    pc,                 \* per caller: "idle", "exists", "copy", "delete", "return"
    op,                 \* per caller: the method it is in
    name,               \* per caller: the name argument
    arg,                \* per caller: the data and options arguments
    src,                \* per caller: local src of handle_archive
    dest,               \* per caller: local dest of handle_archive
    ret,                \* per caller: the result of the call
    log,                \* per caller: the backend calls the call has made
    snap,               \* per caller: the store as it was when the call began
    hist,               \* per name: payloads written by archive-then-save cycles
    cycles,             \* number of cycles begun in the cycle specification
    owed,               \* the name whose cycle has archived and not yet saved
    overlap             \* per caller: its call ran alongside a call on its name

vars == <<data_location, archive_location, store, now, pc, op, name, arg, src,
          dest, ret, log, snap, hist, cycles, owed, overlap>>

\* ------------------------------------------------------------- results
NoRet == [status |-> "pending", path |-> NoPath, items |-> <<>>]
RetNone == [status |-> "None", path |-> NoPath, items |-> <<>>]
RetPath(p) == [status |-> "path", path |-> p, items |-> <<>>]
RetItems(s) == [status |-> "items", path |-> NoPath, items |-> s]
LoadException(p) == [status |-> "LoadException", path |-> p, items |-> <<>>]
WriterError == [status |-> "WriterError", path |-> NoPath, items |-> <<>>]
LoaderError == [status |-> "LoaderError", path |-> NoPath, items |-> <<>>]

Entry(fn, p, d, dat, o, out, items) ==
    [fn |-> fn, path |-> p, dst |-> d, data |-> dat, opts |-> o, out |-> out,
     items |-> items]

BoolOut(b) == IF b THEN "true" ELSE "false"

\* ------------------------------------------------------------- storage
Has(st, p) == p \in DOMAIN st
Put(st, p, v) == [q \in (DOMAIN st) \cup {p} |-> IF q = p THEN v ELSE st[q]]
Remove(st, p) == [q \in (DOMAIN st) \ {p} |-> st[q]]

\* ------------------------------------------------------------- Writer backend
WriterExists(st, p) == Has(st, p)

CopyOutcomes(st, s) == IF Has(st, s) THEN Outcomes ELSE {"fail", "raise"}
WriterCopy(st, s, d, out) ==
    IF out = "ok" /\ Has(st, s) THEN Put(st, d, st[s]) ELSE st

WriterDelete(st, p, out) == IF out = "ok" THEN Remove(st, p) ELSE st

WriterWrite(st, p, dat, out) == IF out = "ok" THEN Put(st, p, dat) ELSE st

\* ------------------------------------------------------------- Loader backend
LoaderCanHandle(p) == BOOLEAN

LoaderLoad(st, p, o) ==
    {[out |-> "raise", items |-> <<>>],
     [out |-> "ok", items |-> IF Has(st, p) THEN st[p] ELSE <<>>]}

\* ------------------------------------------------------------- MediaHandler
ArchiveLocation(loc) == loc \o <<"archive">>

LoadPath(loc, n) == [dir |-> loc, ts |-> NoTs, name |-> n]
\* mutant: the capability check is not consulted
LoadRejects_Never(can) == FALSE
LoadRejects(can) == ~can
LoadKwargs(o) == o
\* mutant: the zero-items check is missing
NoDataLoaded_Never(loaded) == FALSE
NoDataLoaded(loaded) == Len(loaded) = 0
\* mutant: the first loaded item is dropped
LoadReturn_DropFirst(loaded) == Tail(loaded)
LoadReturn(loaded) == loaded
\* mutant: load removes what it has read
LoadEffect_Consumes(st, p) == Remove(st, p)
\* load makes no call on the writer: the store stays as it is
LoadEffect(st, p) == st

ArchiveSrc(loc, n) == [dir |-> loc, ts |-> NoTs, name |-> n]
\* mutant: the timestamp keeps the clock's full resolution
Strftime_SubSecond(t) == t
Strftime(t) == t \div TicksPerSecond
\* mutant: the timestamp prefix is left out of the file name
ArchiveDest_NoTimestamp(aloc, ts, n) == [dir |-> aloc, ts |-> NoTs, name |-> n]
\* mutant: the copy goes under the data location, not the archive location
ArchiveDest_InDataLocation(aloc, ts, n) ==
    [dir |-> DataLocationArg, ts |-> ts, name |-> n]
\* mutant: the name is left out of the file name
ArchiveDest_NoName(aloc, ts, n) == [dir |-> aloc, ts |-> ts, name |-> ""]
ArchiveDest(aloc, ts, n) == [dir |-> aloc, ts |-> ts, name |-> n]
\* mutant: the archive runs whether or not the path exists
ArchiveBranch_Always(exists) == "copy"
ArchiveBranch(exists) == IF exists THEN "copy" ELSE "return"
\* mutant: an error of the copy is caught and the archive goes on
AfterCopy_Continue(out) == "delete"
AfterCopy(out) == IF out = "raise" THEN "return" ELSE "delete"
\* mutant: the destination is not returned
ArchiveReturn_Nothing(d) == RetNone
ArchiveReturn(d) == RetPath(d)

\* mutant: the payload is written under the archive location
SavePath_IntoArchive(loc, n) ==
    [dir |-> loc \o <<"archive">>, ts |-> NoTs, name |-> n]
SavePath(loc, n) == [dir |-> loc, ts |-> NoTs, name |-> n]
SaveData(d) == d
SaveKwargs(o) == o
\* mutant: an error of the writer is caught and dropped
SaveReturn_Swallow(out) == RetNone
SaveReturn(out) == IF out = "raise" THEN WriterError ELSE RetNone

Init ==
    /\ data_location = DataLocationArg
    /\ archive_location = ArchiveLocation(DataLocationArg)
    /\ store = EmptyStore
    /\ now = 0
    /\ pc = [c \in Callers |-> "idle"]
    /\ op = [c \in Callers |-> "none"]
    /\ name = [c \in Callers |-> ""]
    /\ arg = [c \in Callers |-> NoArg]
    /\ src = [c \in Callers |-> NoPath]
    /\ dest = [c \in Callers |-> NoPath]
    /\ ret = [c \in Callers |-> NoRet]
    /\ log = [c \in Callers |-> <<>>]
    /\ snap = [c \in Callers |-> EmptyStore]
    /\ hist = [n \in Names |-> <<>>]
    /\ cycles = 0
    /\ owed = ""
    /\ overlap = [c \in Callers |-> FALSE]

Begin(c, o, n, a) ==
    /\ pc[c] = "idle"
    /\ op' = [op EXCEPT ![c] = o]
    /\ name' = [name EXCEPT ![c] = n]
    /\ arg' = [arg EXCEPT ![c] = a]
    /\ snap' = [snap EXCEPT ![c] = store]
    /\ overlap' = [d \in Callers |->
                     IF d = c
                     THEN \E e \in Callers \ {c} : pc[e] # "idle" /\ name[e] = n
                     ELSE overlap[d] \/ (pc[d] # "idle" /\ name[d] = n)]

\* load(name, **kwargs), lines 47-61
Load(c, n, o) ==
    /\ Begin(c, "load", n, [data |-> <<>>, opts |-> o])
    /\ LET path == LoadPath(data_location, n) IN
       \E can \in LoaderCanHandle(path) :
       \E r \in LoaderLoad(store, path, LoadKwargs(o)) :
          LET probe == Entry("can_handle", path, NoPath, <<>>, NoOpts,
                             BoolOut(can), <<>>)
              read == Entry("load", path, NoPath, <<>>, LoadKwargs(o), r.out,
                            r.items)
          IN IF LoadRejects(can)
             THEN /\ log' = [log EXCEPT ![c] = <<probe>>]
                  /\ ret' = [ret EXCEPT ![c] = LoadException(path)]
             ELSE /\ log' = [log EXCEPT ![c] = <<probe, read>>]
                  /\ ret' = [ret EXCEPT ![c] =
                               IF r.out = "raise" THEN LoaderError
                               ELSE IF NoDataLoaded(r.items)
                                    THEN LoadException(path)
                                    ELSE RetItems(LoadReturn(r.items))]
    /\ store' = LoadEffect(store, LoadPath(data_location, n))
    /\ pc' = [pc EXCEPT ![c] = "return"]
    /\ UNCHANGED <<data_location, archive_location, now, src, dest,
                   hist, cycles, owed>>

\* handle_archive(name), line 76, without the cycle history
ArchiveCore(c, n) ==
    /\ Begin(c, "handle_archive", n, NoArg)
    /\ src' = [src EXCEPT ![c] = ArchiveSrc(data_location, n)]
    /\ dest' = [dest EXCEPT ![c] = NoPath]
    /\ log' = [log EXCEPT ![c] = <<>>]
    /\ ret' = [ret EXCEPT ![c] = NoRet]
    /\ pc' = [pc EXCEPT ![c] = "exists"]
    /\ UNCHANGED <<data_location, archive_location, store, now>>

HandleArchive(c, n) ==
    /\ ArchiveCore(c, n)
    /\ UNCHANGED <<hist, cycles, owed>>

\* handle_archive, lines 79-82 (and 93 when nothing is there)
ArchiveExists(c) ==
    /\ pc[c] = "exists"
    /\ LET e == WriterExists(store, src[c])
           timestamp == Strftime(now)
       IN /\ log' = [log EXCEPT ![c] =
                       Append(@, Entry("exists", src[c], NoPath, <<>>, NoOpts,
                                       BoolOut(e), <<>>))]
          /\ pc' = [pc EXCEPT ![c] = ArchiveBranch(e)]
          /\ IF ArchiveBranch(e) = "copy"
             THEN /\ dest' = [dest EXCEPT ![c] =
                                ArchiveDest(archive_location, timestamp, name[c])]
                  /\ ret' = ret
             ELSE /\ dest' = dest
                  /\ ret' = [ret EXCEPT ![c] = RetNone]
    /\ UNCHANGED <<data_location, archive_location, store, now, op, name, arg, src,
                   snap, hist, cycles, owed, overlap>>

\* handle_archive, line 85
ArchiveCopy(c) ==
    /\ pc[c] = "copy"
    /\ \E out \in CopyOutcomes(store, src[c]) :
          /\ store' = WriterCopy(store, src[c], dest[c], out)
          /\ log' = [log EXCEPT ![c] =
                       Append(@, Entry("copy", src[c], dest[c], <<>>, NoOpts,
                                       out, <<>>))]
          /\ pc' = [pc EXCEPT ![c] = AfterCopy(out)]
          /\ ret' = [ret EXCEPT ![c] =
                       IF AfterCopy(out) = "return" THEN WriterError ELSE @]
    /\ UNCHANGED <<data_location, archive_location, now, op, name, arg, src, dest,
                   snap, hist, cycles, owed, overlap>>

\* handle_archive, lines 88-91
ArchiveDelete(c) ==
    /\ pc[c] = "delete"
    /\ \E out \in Outcomes :
          /\ store' = WriterDelete(store, src[c], out)
          /\ log' = [log EXCEPT ![c] =
                       Append(@, Entry("delete", src[c], NoPath, <<>>, NoOpts,
                                       out, <<>>))]
          /\ ret' = [ret EXCEPT ![c] =
                       IF out = "raise" THEN WriterError
                       ELSE ArchiveReturn(dest[c])]
    /\ pc' = [pc EXCEPT ![c] = "return"]
    /\ UNCHANGED <<data_location, archive_location, now, op, name, arg, src, dest,
                   snap, hist, cycles, owed, overlap>>

\* save_dict(data, name, **kwargs), lines 110-113, without the cycle history
SaveCore(c, d, n, o) ==
    /\ Begin(c, "save_dict", n, [data |-> d, opts |-> o])
    /\ LET path == SavePath(data_location, n) IN
       \E out \in Outcomes :
          /\ store' = WriterWrite(store, path, SaveData(d), out)
          /\ log' = [log EXCEPT ![c] =
                       <<Entry("write", path, NoPath, SaveData(d),
                               SaveKwargs(o), out, <<>>)>>]
          /\ ret' = [ret EXCEPT ![c] = SaveReturn(out)]
    /\ pc' = [pc EXCEPT ![c] = "return"]
    /\ UNCHANGED <<data_location, archive_location, now, src, dest>>

SaveDict(c, d, n, o) ==
    /\ SaveCore(c, d, n, o)
    /\ UNCHANGED <<hist, cycles, owed>>

\* the call hands its result to the caller
Return(c) ==
    /\ pc[c] = "return"
    /\ pc' = [pc EXCEPT ![c] = "idle"]
    /\ op' = [op EXCEPT ![c] = "none"]
    /\ name' = [name EXCEPT ![c] = ""]
    /\ arg' = [arg EXCEPT ![c] = NoArg]
    /\ src' = [src EXCEPT ![c] = NoPath]
    /\ dest' = [dest EXCEPT ![c] = NoPath]
    /\ ret' = [ret EXCEPT ![c] = NoRet]
    /\ log' = [log EXCEPT ![c] = <<>>]
    /\ snap' = [snap EXCEPT ![c] = EmptyStore]
    /\ overlap' = [overlap EXCEPT ![c] = FALSE]
    /\ UNCHANGED <<data_location, archive_location, store, now, hist, cycles, owed>>

\* the wall clock advances
Tick ==
    /\ now < MaxClock
    /\ now' = now + 1
    /\ UNCHANGED <<data_location, archive_location, store, pc, op, name, arg, src,
                   dest, ret, log, snap, hist, cycles, owed, overlap>>

\* the caller serializes its calls: a call begins only when no call is running
Serialized == \A c \in Callers : pc[c] = "idle"

Next ==
    \/ \E c \in Callers, n \in Names, o \in Options : Serialized /\ Load(c, n, o)
    \/ \E c \in Callers, n \in Names : Serialized /\ HandleArchive(c, n)
    \/ \E c \in Callers, n \in Names, d \in Data, o \in Options :
          Serialized /\ SaveDict(c, d, n, o)
    \/ \E c \in Callers : ArchiveExists(c)
    \/ \E c \in Callers : ArchiveCopy(c)
    \/ \E c \in Callers : ArchiveDelete(c)
    \/ \E c \in Callers : Return(c)
    \/ Tick

Spec == Init /\ [][Next]_vars

\* Two callers that do not serialize: a call may begin while another runs.
\* MaxCalls bounds the calls begun.
ConcArchive(c, n) ==
    /\ cycles < MaxCalls
    /\ ArchiveCore(c, n)
    /\ cycles' = cycles + 1
    /\ UNCHANGED <<hist, owed>>

ConcSave(c, d, n, o) ==
    /\ cycles < MaxCalls
    /\ SaveCore(c, d, n, o)
    /\ cycles' = cycles + 1
    /\ UNCHANGED <<hist, owed>>

ConcData == {<<"y">>, <<"x", "y">>}
ConcOptions == {"o1"}

NextConc ==
    \/ \E c \in Callers, n \in Names : ConcArchive(c, n)
    \/ \E c \in Callers, n \in Names, d \in ConcData, o \in ConcOptions :
          ConcSave(c, d, n, o)
    \/ \E c \in Callers : ArchiveExists(c)
    \/ \E c \in Callers : ArchiveCopy(c)
    \/ \E c \in Callers : ArchiveDelete(c)
    \/ \E c \in Callers : Return(c)
    \/ Tick

SpecConc == Init /\ [][NextConc]_vars

\* ------------------------------------------------------------- cycles
\* The caller of the cycle specification serializes its calls and calls
\* handle_archive(name) immediately before every save_dict(data, name); the
\* clock gives every archive of a name a timestamp of its own, and the
\* writer's calls succeed.
LastOk(c) == log'[c][Len(log'[c])].out = "ok"

CycleArchive(c, n) ==
    /\ Serialized
    /\ owed = ""
    /\ cycles < MaxCycles
    /\ ArchiveCore(c, n)
    /\ cycles' = cycles + 1
    /\ owed' = n
    /\ hist' = hist

CycleExists(c) ==
    /\ ArchiveExists(c)
    /\ pc'[c] = "copy" => ~Has(store, dest'[c])

CycleCopy(c) == ArchiveCopy(c) /\ LastOk(c)

CycleDelete(c) == ArchiveDelete(c) /\ LastOk(c)

CycleSave(c, d, o) ==
    /\ Serialized
    /\ owed # ""
    /\ SaveCore(c, d, owed, o)
    /\ LastOk(c)
    /\ hist' = [hist EXCEPT ![owed] = Append(@, d)]
    /\ owed' = ""
    /\ cycles' = cycles

CycleLoad(c, n, o) == Serialized /\ owed = "" /\ Load(c, n, o)

NextCycle ==
    \/ \E c \in Callers, n \in Names : CycleArchive(c, n)
    \/ \E c \in Callers : CycleExists(c)
    \/ \E c \in Callers : CycleCopy(c)
    \/ \E c \in Callers : CycleDelete(c)
    \/ \E c \in Callers, d \in Data, o \in Options : CycleSave(c, d, o)
    \/ \E c \in Callers, n \in Names, o \in Options : CycleLoad(c, n, o)
    \/ \E c \in Callers : Return(c)
    \/ Tick

SpecCycle == Init /\ [][NextCycle]_vars

\* ------------------------------------------------------------- properties
\* The paths the specification names, written out: <data_location>/<name>
\* and <data_location>/archive/<timestamp>-<name>.
CurrentOf(n) == [dir |-> <<"data">>, ts |-> NoTs, name |-> n]
ArchivedAt(t, n) == [dir |-> <<"data", "archive">>, ts |-> t, name |-> n]
Seconds == 0 .. (now \div TicksPerSecond)
ArchivesOf(st, n) == {t \in Seconds : Has(st, ArchivedAt(t, n))}

\* the call of c has run to its end and its result is about to be handed over
Ended(c, o) == pc[c] = "return" /\ op[c] = o
FnsOf(c) == {log[c][i].fn : i \in 1 .. Len(log[c])}

\* handle_archive of c found the artifact and its copy and delete succeeded
ArchiveSucceeded(c) ==
    /\ Ended(c, "handle_archive")
    /\ Has(snap[c], CurrentOf(name[c]))
    /\ Len(log[c]) = 3
    /\ log[c][2].out = "ok"
    /\ log[c][3].out = "ok"
    /\ ret[c].status = "path"

\* C1: after a successful handle_archive(name) on an existing artifact the
\* current path is gone, the one path that is new or changed is
\* <data_location>/archive/<timestamp>-<name>, it holds the content the
\* artifact had before the call, and it is the returned value.
C1_ArchiveMoves ==
    \A c \in Callers :
        ArchiveSucceeded(c) =>
            LET cur == CurrentOf(name[c])
                p == ret[c].path
            IN /\ \E t \in Seconds : p = ArchivedAt(t, name[c])
               /\ ~Has(store, cur)
               /\ Has(store, p)
               /\ store[p] = snap[c][cur]
               /\ DOMAIN store = ((DOMAIN snap[c]) \ {cur}) \cup {p}
               /\ \A q \in (DOMAIN store) \ {p} : store[q] = snap[c][q]

C1_Witness == \E c \in Callers : ArchiveSucceeded(c)

\* C2: whenever the writer's copy reports failure, delete is not issued and
\* the original artifact remains at <data_location>/<name>.
C2_DeleteOnlyAfterCopy ==
    \A c \in Callers :
        \A i \in 1 .. Len(log[c]) :
            (op[c] = "handle_archive" /\ log[c][i].fn = "copy"
                                      /\ log[c][i].out # "ok") =>
                LET cur == CurrentOf(name[c])
                IN /\ "delete" \notin FnsOf(c)
                   /\ Has(store, cur)
                   /\ store[cur] = snap[c][cur]

\* C3: in every intermediate and final state of a serialized handle_archive
\* on an existing artifact, the artifact's content exists at the current path
\* or at the archive destination.
C3_NeverZeroCopies ==
    \A c \in Callers :
        (op[c] = "handle_archive" /\ Has(snap[c], CurrentOf(name[c]))) =>
            LET cur == CurrentOf(name[c])
            IN \/ Has(store, cur) /\ store[cur] = snap[c][cur]
               \/ \E t \in Seconds :
                     /\ Has(store, ArchivedAt(t, name[c]))
                     /\ store[ArchivedAt(t, name[c])] = snap[c][cur]

\* C4: whenever save_dict replaces content that existed at
\* <data_location>/<name>, that content is held by an archived copy.
C4_NoSilentOverwrite ==
    \A c \in Callers :
        LET cur == CurrentOf(name[c])
        IN (/\ Ended(c, "save_dict")
            /\ Has(snap[c], cur)
            /\ Has(store, cur)
            /\ store[cur] # snap[c][cur]) =>
               \E t \in Seconds :
                  /\ Has(store, ArchivedAt(t, name[c]))
                  /\ store[ArchivedAt(t, name[c])] = snap[c][cur]

\* handle_archive of c was told by the writer that nothing is there
ArchiveFoundNothing(c) ==
    /\ op[c] = "handle_archive"
    /\ Len(log[c]) >= 1
    /\ log[c][1].out = "false"

\* C5: handle_archive(name) with no artifact at <data_location>/<name> returns
\* None, raises nothing, calls the writer's exists alone and leaves the store
\* as it was.
C5_ArchiveAbsentNoOp ==
    \A c \in Callers :
        ArchiveFoundNothing(c) =>
            /\ pc[c] = "return"
            /\ ret[c] = [status |-> "None", path |-> NoPath, items |-> <<>>]
            /\ Len(log[c]) = 1
            /\ log[c][1].fn = "exists"
            /\ log[c][1].path = CurrentOf(name[c])
            /\ store = snap[c]

C5_Witness == \E c \in Callers : ArchiveFoundNothing(c) /\ pc[c] = "return"

\* load of c was told by the loader that it cannot handle the path
LoadRefused(c) ==
    /\ Ended(c, "load")
    /\ log[c][1].fn = "can_handle"
    /\ log[c][1].out = "false"

\* C6: when can_handle reports false for <data_location>/<name>, load fails
\* with a LoadException carrying that path and the loader's load is not called.
C6_LoadRejection ==
    \A c \in Callers :
        LoadRefused(c) =>
            /\ log[c][1].path = CurrentOf(name[c])
            /\ ret[c].status = "LoadException"
            /\ ret[c].path = CurrentOf(name[c])
            /\ "load" \notin FnsOf(c)

C6_Witness == \E c \in Callers : LoadRefused(c)

\* load of c passed the capability check and the loader returned zero items
LoadedNothing(c) ==
    /\ Ended(c, "load")
    /\ Len(log[c]) = 2
    /\ log[c][1].out = "true"
    /\ log[c][2].out = "ok"
    /\ Len(log[c][2].items) = 0

\* C7: load never returns an empty batch; zero loaded items is a LoadException
\* carrying the path.
C7_NoEmptyBatch ==
    \A c \in Callers :
        /\ (Ended(c, "load") /\ ret[c].status \notin {"LoadException", "LoaderError"})
              => (ret[c].status = "items" /\ Len(ret[c].items) >= 1)
        /\ LoadedNothing(c) =>
              /\ ret[c].status = "LoadException"
              /\ ret[c].path = CurrentOf(name[c])

C7_Witness == \E c \in Callers : LoadedNothing(c)

\* load of c passed the capability check and the backend holds a non-empty
\* batch that the loader read
LoadedBatch(c) ==
    /\ Ended(c, "load")
    /\ Len(log[c]) = 2
    /\ log[c][1].out = "true"
    /\ log[c][2].out = "ok"
    /\ Has(store, CurrentOf(name[c]))
    /\ Len(store[CurrentOf(name[c])]) > 0

\* C8: with can_handle true and a non-empty batch at <data_location>/<name>,
\* load returns the loader's sequence unmodified, and has called the loader
\* with that path and the caller's options.
C8_LoadCompleteness ==
    \A c \in Callers :
        LoadedBatch(c) =>
            /\ ret[c].status = "items"
            /\ ret[c].items = log[c][2].items
            /\ ret[c].items = store[CurrentOf(name[c])]
            /\ log[c][2].fn = "load"
            /\ log[c][2].path = CurrentOf(name[c])
            /\ log[c][2].opts = arg[c].opts

C8_Witness == \E c \in Callers : LoadedBatch(c) /\ Len(ret[c].items) = 2

RECURSIVE InOrder(_)
InOrder(S) ==
    IF S = {} THEN <<>>
    ELSE LET m == CHOOSE t \in S : \A u \in S : t <= u
         IN <<m>> \o InOrder(S \ {m})

ArchivedSeq(n) ==
    LET ts == InOrder(ArchivesOf(store, n))
    IN [i \in 1 .. Len(ts) |-> store[ArchivedAt(ts[i], n)]]

Front(s) == SubSeq(s, 1, Len(s) - 1)

C11_SameSecondCollides ==
    /\ [](\A c \in Callers :
            (ArchiveSucceeded(c) /\ Has(snap[c], ret[c].path)) =>
                /\ store[ret[c].path] = snap[c][CurrentOf(name[c])]
                /\ ArchivesOf(store, name[c]) = ArchivesOf(snap[c], name[c]))
    /\ [][\A c \in Callers :
            (pc[c] = "exists" /\ pc'[c] = "copy") =>
                dest'[c] = ArchivedAt(now \div TicksPerSecond, name[c])]_vars

\* archive, save, archive within one second: the content archived first is
\* held nowhere
C11_Witness ==
    \E c \in Callers :
       /\ ArchiveSucceeded(c)
       /\ Has(snap[c], ret[c].path)
       /\ snap[c][ret[c].path] # store[ret[c].path]
       /\ \A q \in DOMAIN store : store[q] # snap[c][ret[c].path]

\* handle_archive of c is about to copy or delete a current path that is not
\* what was there when the call began
Stale(c) ==
    /\ op[c] = "handle_archive"
    /\ pc[c] \in {"copy", "delete"}
    /\ \/ ~Has(store, CurrentOf(name[c]))
       \/ ~Has(snap[c], CurrentOf(name[c]))
       \/ store[CurrentOf(name[c])] # snap[c][CurrentOf(name[c])]

\* C12: callers that do not serialize can reach a state where an archive
\* copies or deletes a current path another call has changed; a call that
\* overlaps no call on its name never does.
C12_RaceNeedsOverlap == \A c \in Callers : Stale(c) => overlap[c]

\* both archives saw the path, d has deleted it, c has yet to copy or delete
C12_Witness ==
    \E c \in Callers : \E d \in Callers \ {c} :
       /\ op[c] = "handle_archive" /\ op[d] = "handle_archive"
       /\ name[c] = name[d]
       /\ Len(log[c]) >= 1 /\ log[c][1].out = "true"
       /\ Len(log[d]) = 3 /\ log[d][1].out = "true" /\ log[d][3].out = "ok"
       /\ pc[c] \in {"copy", "delete"}
       /\ ~Has(store, CurrentOf(name[c]))

\* C13: load makes no call on the writer and leaves the store as it was,
\* whatever its outcome.
C13_LoadReadOnly ==
    \A c \in Callers :
        Ended(c, "load") =>
            /\ store = snap[c]
            /\ FnsOf(c) \subseteq {"can_handle", "load"}

C13_Witness ==
    \E c \in Callers :
       /\ Ended(c, "load")
       /\ ret[c].status = "items"
       /\ ArchivesOf(store, name[c]) # {}

\* the locations are those of the constructor, every stored path is a current
\* or an archived path, and every backend call names the paths of its name
PathsAsDerived ==
    /\ data_location = <<"data">>
    /\ archive_location = <<"data", "archive">>
    /\ \A q \in DOMAIN store :
          \E n \in Names :
             \/ q = CurrentOf(n)
             \/ \E t \in Seconds : q = ArchivedAt(t, n)
    /\ \A c \in Callers : \A i \in 1 .. Len(log[c]) :
          /\ log[c][i].path = CurrentOf(name[c])
          /\ log[c][i].fn = "copy" =>
                \E t \in Seconds : log[c][i].dst = ArchivedAt(t, name[c])
          /\ log[c][i].fn # "copy" => log[c][i].dst = NoPath

IsArchived(q) == q.dir = <<"data", "archive">>

ArchivedKept ==
    \A q \in DOMAIN store :
        IsArchived(q) => (q \in DOMAIN store' /\ store'[q] = store[q])

ArchivedKeptOrCollided ==
    \A q \in DOMAIN store :
        IsArchived(q) =>
            /\ q \in DOMAIN store'
            /\ store'[q] # store[q] =>
                  \E c \in Callers :
                     /\ op[c] = "handle_archive"
                     /\ pc[c] = "copy"
                     /\ pc'[c] = "delete"
                     /\ q = dest[c]
                     /\ \E t \in Seconds : q = ArchivedAt(t, name[c])
                     /\ store'[q] = store[CurrentOf(name[c])]

\* C14 as stated: the locations are fixed, load and save_dict use
\* <data_location>/<name>, handle_archive copies to
\* <data_location>/archive/<timestamp>-<name>, and no operation overwrites or
\* deletes an archived copy.
C14_ArchivedNeverTouched == []PathsAsDerived /\ [][ArchivedKept]_vars

\* C14 as amended: the same, except that an archived copy is replaced by a
\* later handle_archive of its name that takes the same one-second timestamp.
C14_PathInvariant == []PathsAsDerived /\ [][ArchivedKeptOrCollided]_vars

C14_Witness ==
    \E c \in Callers :
       /\ op[c] = "handle_archive"
       /\ pc[c] = "delete"
       /\ Has(snap[c], dest[c])
       /\ Has(store, dest[c])
       /\ snap[c][dest[c]] # store[dest[c]]

\* the copy of c's handle_archive raised
CopyRaised(c) ==
    /\ Ended(c, "handle_archive")
    /\ Len(log[c]) >= 2
    /\ log[c][2].out = "raise"

\* the delete of c's handle_archive raised after the copy succeeded
DeleteRaised(c) ==
    /\ Ended(c, "handle_archive")
    /\ Len(log[c]) = 3
    /\ log[c][2].out = "ok"
    /\ log[c][3].out = "raise"

\* C15: a copy that raises ends handle_archive with that error, without a
\* delete and with the original as it was; a delete that raises after a
\* successful copy ends it with that error, the original and the archived
\* copy both being there.
C15_RaisePropagates ==
    \A c \in Callers :
        LET cur == CurrentOf(name[c]) IN
        /\ CopyRaised(c) =>
              /\ ret[c].status = "WriterError"
              /\ "delete" \notin FnsOf(c)
              /\ Has(store, cur)
              /\ store = snap[c]
        /\ DeleteRaised(c) =>
              /\ ret[c].status = "WriterError"
              /\ Has(store, cur)
              /\ store[cur] = snap[c][cur]
              /\ Has(store, log[c][2].dst)
              /\ store[log[c][2].dst] = snap[c][cur]

C15_Witness == \E c \in Callers : CopyRaised(c) /\ Len(snap[c][CurrentOf(name[c])]) > 0

\* C16: handle_archive(n) and save_dict(data, n) change no path but
\* <data_location>/<n> and <data_location>/archive/<timestamp>-<n>: what is
\* stored under every other name is there with the same content.
C16_OtherNamesUntouched ==
    \A c \in Callers :
        (pc[c] # "idle" /\ op[c] \in {"handle_archive", "save_dict"}) =>
            \A q \in (DOMAIN store) \cup (DOMAIN snap[c]) :
                \/ q = CurrentOf(name[c])
                \/ \E t \in Seconds : q = ArchivedAt(t, name[c])
                \/ /\ Has(store, q)
                   /\ Has(snap[c], q)
                   /\ store[q] = snap[c][q]

C16_Witness ==
    \E c \in Callers : \E m \in Names \ {name[c]} :
       /\ ArchiveSucceeded(c)
       /\ Has(store, CurrentOf(m))
       /\ ArchivesOf(store, m) # {}

ArchiveCalls == <<"exists", "copy", "delete">>

\* C17: handle_archive calls exists once and first, then, only if it returned
\* true, copy once and then delete once; it returns the destination exactly
\* when copy and delete both returned without raising, and calls nothing else.
C17_CallOrder ==
    \A c \in Callers :
        op[c] = "handle_archive" =>
            LET L == log[c]
                cur == CurrentOf(name[c])
            IN /\ Len(L) <= 3
               /\ \A i \in 1 .. Len(L) : L[i].fn = ArchiveCalls[i] /\ L[i].path = cur
               /\ Len(L) >= 2 =>
                     /\ L[1].out = "true"
                     /\ \E t \in Seconds : L[2].dst = ArchivedAt(t, name[c])
               /\ Len(L) = 3 => L[2].out # "raise"
               /\ pc[c] = "return" =>
                     /\ Len(L) >= 1
                     /\ L[1].out = "true" => Len(L) >= 2
                     /\ Len(L) = 2 => L[2].out = "raise"
                     /\ (ret[c].status = "path") <=>
                           (Len(L) = 3 /\ L[3].out # "raise")
                     /\ ret[c].status = "path" => ret[c].path = L[2].dst
                     /\ ret[c].status \in {"path", "None", "WriterError"}

C17_Witness ==
    \E c \in Callers :
       /\ Ended(c, "handle_archive")
       /\ Len(log[c]) = 3
       /\ log[c][3].out = "fail"
       /\ ret[c].status = "path"

=============================================================================
